---- MODULE Spec2Model ----
(***************************************************************************)
(* Conversation / message store of the campus marketplace.                 *)
(*                                                                         *)
(*   Spec      the in-memory store (MemStorage, server/storage.ts), the    *)
(*             one exported to the routes.  Its methods contain no await,  *)
(*             so each call is one atomic step.                            *)
(*   SpecDb    the relational store (DatabaseStorage, server/storage.ts).  *)
(*             createMessage awaits three datastore round trips; the       *)
(*             calls of concurrent requests interleave between them.       *)
(*   SpecPair  the createMessage calls of one pair of users, on either     *)
(*             store.                                                      *)
(*   SpecLast  the relational store from a state with one conversation.    *)
(*   SpecMongo the document store (MongoStorage, server/mongodb-storage.ts)*)
(*             with createMessage's save and upsert.                       *)
(*   SpecRoutes, SpecGateway  the message routes and the Socket.IO gateway *)
(*             of server/routes.ts over the in-memory store.               *)
(*   SpecChat  the chat page (chat-interface.tsx) against those handlers.  *)
(*   SpecFail  the same handlers over the relational store, whose round    *)
(*             trips can fail.                                             *)
(*   SpecRead  the GET messages route over the relational store, its list  *)
(*             and its mark being two round trips.                         *)
(***************************************************************************)
EXTENDS Integers, Sequences, FiniteSets, TLC

VARIABLES
  store,          \* which IStorage implementation the server was built with
  messages,       \* the Message map / table, in insertion order
  conversations,  \* the Conversation map / table, in insertion order
  now,            \* the latest reading of the wall clock (new Date(), defaultNow())
  req,            \* the createMessage calls in flight that await the database
  sockets,        \* the Socket.IO connections and the rooms each has joined
  delivered,      \* the newMessage events written to each connection, in order
  callers,        \* the handler each createMessage call in flight was made by
  res,            \* what the handler that finished last sent back to its caller
  gets,           \* the GET /api/conversations/:id/messages requests in flight
  returned        \* per user, the ids of the messages the route has sent them

\* the state of the store, and that of the routes and gateway around it
storage == <<store, messages, conversations, now, req>>
gateway == <<sockets, delivered, callers, res>>
reading == <<gets, returned>>

vars == <<store, messages, conversations, now, req, sockets, delivered, callers, res,
          gets, returned>>

\* ---------------------------------------------------------------- bounds
MaxMessages == 2
MaxTime == 1
MaxRequests == 2
MaxConns == 2

Users == {"u1", "u2", "u3"}
Items == {"i1"}
Contents == {"hi"}

\* JavaScript's undefined and null
Undefined == "undefined"
Null == "null"

\* item identifiers a caller can put in an InsertMessage
ItemInputs == Items \cup {Undefined}

Requests == 1..MaxRequests

\* the Socket.IO connections clients open
Conns == 1..MaxConns

\* an InsertMessage: what insertMessageSchema.parse returns and what
\* createMessage is typed to take; it has no isRead
InsertMessage(fromUserId, toUserId, content, itemId) ==
  [fromUserId |-> fromUserId, toUserId |-> toUserId, content |-> content,
   itemId |-> itemId, isRead |-> Undefined]

\* ---------------------------------------------------------------- helpers
\* x || null
OrNull(x) == IF x \in {Undefined, Null, ""} THEN Null ELSE x

\* Array.prototype.filter: the elements at the indices kept, in order
FilterSeq(s, kept) ==
  [p \in 1..Cardinality(kept) |->
     s[CHOOSE i \in kept : Cardinality({j \in kept : j <= i}) = p]]

\* Array.prototype.sort (stable) with comparator a.key - b.key (ascending);
\* key[i] is the key of s[i]
SortAsc(s, key) ==
  LET n == Len(s)
      pos(i) == Cardinality({j \in 1..n : key[j] < key[i]})
                + Cardinality({j \in 1..(i - 1) : key[j] = key[i]}) + 1
  IN [p \in 1..n |-> s[CHOOSE i \in 1..n : pos(i) = p]]

\* Array.prototype.sort (stable) with comparator b.key - a.key (descending)
SortDesc(s, key) ==
  LET n == Len(s)
      pos(i) == Cardinality({j \in 1..n : key[j] > key[i]})
                + Cardinality({j \in 1..(i - 1) : key[j] = key[i]}) + 1
  IN [p \in 1..n |-> s[CHOOSE i \in 1..n : pos(i) = p]]

Range(s) == {s[i] : i \in DOMAIN s}

\* The pair test written out in every store method:
\* (from = p1 && to = p2) || (from = p2 && to = p1)
PairMatch(from, to, p1, p2) ==
  \/ (from = p1 /\ to = p2)
  \/ (from = p2 /\ to = p1)

IdleReq == [pc |-> "idle", fromUserId |-> Null, toUserId |-> Null,
            itemId |-> Null, found |-> 0, newMessage |-> 0, at |-> 0]

\* a connection not made yet: no socket, no rooms
NoSocket == [state |-> "none", rooms |-> {}]

\* no handler has finished yet
\* no GET request in slot g
IdleGet == [pc |-> "idle", userId |-> Null, id |-> 0, messages |-> <<>>]

NoResponse == [caller |-> "none", status |-> 0]

\* ---------------------------------------------------------------- state
Init ==
  /\ store \in {"mem", "db"}
  /\ messages = <<>>
  /\ conversations = <<>>
  /\ now = 0
  /\ req = [r \in Requests |-> IdleReq]
  /\ sockets = [k \in Conns |-> NoSocket]
  /\ delivered = [k \in Conns |-> <<>>]
  /\ callers = [r \in Requests |-> "none"]
  /\ res = NoResponse
  /\ gets = [g \in Requests |-> IdleGet]
  /\ returned = [u \in Users |-> {}]

\* The clock is monotonic: a reading is no earlier than the latest one, and any
\* time may have passed since.
ClockReadings == now..MaxTime

\* A synchronous handler runs for well under a clock tick: the clock ticks at
\* most once between its first new Date(), which read t, and its later ones.
LaterReadings(t) == {t, t + 1} \cap (0..MaxTime)

\* ---------------------------------------------------------------- MemStorage
\* Array.from(this.conversations.values()).find(...) of createMessage:
\* index of the first conversation for the pair and item scope, 0 if none
MemFindConversationOneOrder(convs, fromUserId, toUserId, itemId) ==
  LET hits == {c \in 1..Len(convs) :
                 /\ convs[c].participant1Id = fromUserId
                 /\ convs[c].participant2Id = toUserId
                 /\ convs[c].itemId = OrNull(itemId)}
  IN IF hits = {} THEN 0 ELSE CHOOSE c \in hits : \A d \in hits : c <= d

MemFindConversationAnyItem(convs, fromUserId, toUserId, itemId) ==
  LET hits == {c \in 1..Len(convs) :
                 PairMatch(convs[c].participant1Id, convs[c].participant2Id,
                           fromUserId, toUserId)}
  IN IF hits = {} THEN 0 ELSE CHOOSE c \in hits : \A d \in hits : c <= d

MemFindConversationNeverFinds(convs, fromUserId, toUserId, itemId) == 0

MemFindConversation(convs, fromUserId, toUserId, itemId) ==
  LET hits == {c \in 1..Len(convs) :
                 /\ PairMatch(convs[c].participant1Id, convs[c].participant2Id,
                              fromUserId, toUserId)
                 /\ convs[c].itemId = OrNull(itemId)}
  IN IF hits = {} THEN 0 ELSE CHOOSE c \in hits : \A d \in hits : c <= d

\* { ...message, id: this.generateId(), itemId: message.itemId || null,
\*   isRead: false, createdAt: new Date() }: the keys written after the spread
\* replace those the caller's object carries
MemNewMessageKeepsIsRead(message, id, createdAt) ==
  [id |-> id,
   fromUserId |-> message.fromUserId,
   toUserId |-> message.toUserId,
   content |-> message.content,
   itemId |-> OrNull(message.itemId),
   isRead |-> (message.isRead = "true"),
   createdAt |-> createdAt]

MemNewMessage(message, id, createdAt) ==
  [id |-> id,
   fromUserId |-> message.fromUserId,
   toUserId |-> message.toUserId,
   content |-> message.content,
   itemId |-> OrNull(message.itemId),
   isRead |-> FALSE,
   createdAt |-> createdAt]

\* createMessage while the store holds fewer than room messages
MemCreate(message, room) ==
  /\ store = "mem"
  /\ Len(messages) < room
  /\ \E t1 \in ClockReadings : \E t2 \in LaterReadings(t1) :
       LET newMessage == MemNewMessage(message, Len(messages) + 1, t1)
           existingConv == MemFindConversation(conversations, message.fromUserId,
                                               message.toUserId, message.itemId)
           newConv == [id |-> Len(conversations) + 1,
                       participant1Id |-> message.fromUserId,
                       participant2Id |-> message.toUserId,
                       itemId |-> OrNull(message.itemId),
                       lastMessageAt |-> t2,
                       createdAt |-> t2]
       IN /\ messages' = Append(messages, newMessage)
          /\ conversations' =
               IF existingConv # 0
               THEN [conversations EXCEPT ![existingConv].lastMessageAt = t2]
               ELSE Append(conversations, newConv)
          /\ now' = t2
  /\ UNCHANGED <<store, req>>

MemCreateMessage(message) == MemCreate(message, MaxMessages)

MemGetConversationsResultFirstSlot(convs, userId) ==
  LET mine == FilterSeq(convs, {c \in 1..Len(convs) : convs[c].participant1Id = userId})
  IN SortDesc(mine, [c \in 1..Len(mine) |-> mine[c].lastMessageAt])

MemGetConversationsResultOldestFirst(convs, userId) ==
  LET mine == FilterSeq(convs, {c \in 1..Len(convs) :
                                  \/ convs[c].participant1Id = userId
                                  \/ convs[c].participant2Id = userId})
  IN SortAsc(mine, [c \in 1..Len(mine) |-> mine[c].lastMessageAt])

MemGetConversationsResult(convs, userId) ==
  LET mine == FilterSeq(convs, {c \in 1..Len(convs) :
                                  \/ convs[c].participant1Id = userId
                                  \/ convs[c].participant2Id = userId})
  IN SortDesc(mine, [c \in 1..Len(mine) |-> mine[c].lastMessageAt])

\* a read: the store is left as it is, the caller gets the result
MemGetConversations(userId) ==
  /\ store = "mem"
  /\ MemGetConversationsResult(conversations, userId) \in Seq(Range(conversations))
  /\ UNCHANGED storage

MemGetConversationMessagesResultNewestFirst(msgs, convs, conversationId) ==
  LET found == FilterSeq(msgs, {i \in 1..Len(msgs) :
                                  /\ conversationId \in 1..Len(convs)
                                  /\ PairMatch(msgs[i].fromUserId, msgs[i].toUserId,
                                               convs[conversationId].participant1Id,
                                               convs[conversationId].participant2Id)})
  IN SortDesc(found, [i \in 1..Len(found) |-> found[i].createdAt])

MemGetConversationMessagesResult(msgs, convs, conversationId) ==
  LET found == FilterSeq(msgs, {i \in 1..Len(msgs) :
                                  /\ conversationId \in 1..Len(convs)
                                  /\ PairMatch(msgs[i].fromUserId, msgs[i].toUserId,
                                               convs[conversationId].participant1Id,
                                               convs[conversationId].participant2Id)})
  IN SortAsc(found, [i \in 1..Len(found) |-> found[i].createdAt])

MemGetConversationMessages(conversationId) ==
  /\ store = "mem"
  /\ MemGetConversationMessagesResult(messages, conversations, conversationId)
       \in Seq(Range(messages))
  /\ UNCHANGED storage

MemMarkMessagesAsReadResultFirstOnly(msgs, convs, conversationId, userId) ==
  IF conversationId \notin 1..Len(convs) THEN msgs
  ELSE LET conv == convs[conversationId]
           hits == {i \in 1..Len(msgs) :
                      /\ msgs[i].toUserId = userId
                      /\ ~msgs[i].isRead
                      /\ PairMatch(msgs[i].fromUserId, msgs[i].toUserId,
                                   conv.participant1Id, conv.participant2Id)}
       IN [i \in 1..Len(msgs) |->
             IF i \in hits /\ \A j \in hits : i <= j
             THEN [msgs[i] EXCEPT !.isRead = TRUE]
             ELSE msgs[i]]

MemMarkMessagesAsReadResultToggle(msgs, convs, conversationId, userId) ==
  IF conversationId \notin 1..Len(convs) THEN msgs
  ELSE LET conv == convs[conversationId]
       IN [i \in 1..Len(msgs) |->
             IF /\ msgs[i].toUserId = userId
                /\ PairMatch(msgs[i].fromUserId, msgs[i].toUserId,
                             conv.participant1Id, conv.participant2Id)
             THEN [msgs[i] EXCEPT !.isRead = ~msgs[i].isRead]
             ELSE msgs[i]]

MemMarkMessagesAsReadResult(msgs, convs, conversationId, userId) ==
  IF conversationId \notin 1..Len(convs) THEN msgs
  ELSE LET conv == convs[conversationId]
       IN [i \in 1..Len(msgs) |->
             IF /\ msgs[i].toUserId = userId
                /\ ~msgs[i].isRead
                /\ PairMatch(msgs[i].fromUserId, msgs[i].toUserId,
                             conv.participant1Id, conv.participant2Id)
             THEN [msgs[i] EXCEPT !.isRead = TRUE]
             ELSE msgs[i]]

MemMarkMessagesAsRead(conversationId, userId) ==
  /\ store = "mem"
  /\ messages' = MemMarkMessagesAsReadResult(messages, conversations, conversationId, userId)
  /\ UNCHANGED <<store, conversations, now, req>>

\* ---------------------------------------------------------------- DatabaseStorage
\* a JavaScript value used as a condition
Truthy(x) == x \notin {Undefined, Null, ""}

\* a column value written from a JavaScript value: undefined is stored as NULL
DbValue(x) == IF x = Undefined THEN Null ELSE x

\* The WHERE clause of createMessage's select: both orders of the pair, and
\* message.itemId ? eq(conversations.itemId, message.itemId) : itemId IS NULL
DbConversationExists(convs, fromUserId, toUserId, itemId) ==
  {c \in 1..Len(convs) :
     /\ \/ (convs[c].participant1Id = fromUserId /\ convs[c].participant2Id = toUserId)
        \/ (convs[c].participant1Id = toUserId /\ convs[c].participant2Id = fromUserId)
     /\ IF Truthy(itemId) THEN convs[c].itemId = itemId ELSE convs[c].itemId = Null}

\* createMessage, first round trip: db.insert(messages).values(message).returning(),
\* in a run that stops when the table holds room rows
DbInsert(r, fromUserId, toUserId, content, itemId, room) ==
  /\ store = "db"
  /\ req[r].pc = "idle"
  /\ Len(messages) < room
  /\ \E t \in ClockReadings :
       /\ messages' = Append(messages, [id |-> Len(messages) + 1,
                                        fromUserId |-> fromUserId,
                                        toUserId |-> toUserId,
                                        content |-> content,
                                        itemId |-> DbValue(itemId),
                                        isRead |-> FALSE,
                                        createdAt |-> t])
       /\ now' = t
  /\ req' = [req EXCEPT ![r] = [pc |-> "inserted", fromUserId |-> fromUserId,
                                toUserId |-> toUserId, itemId |-> itemId, found |-> 0,
                                newMessage |-> Len(messages) + 1, at |-> 0]]
  /\ UNCHANGED <<store, conversations>>

DbInsertMessage(r, fromUserId, toUserId, content, itemId) ==
  DbInsert(r, fromUserId, toUserId, content, itemId, MaxMessages)

\* createMessage, second round trip: the select of the pair's conversation.
\* The rows come back in no stated order: conversationExists[0] is any of them.
DbSelectConversation(r) ==
  /\ store = "db"
  /\ req[r].pc = "inserted"
  /\ LET conversationExists == DbConversationExists(conversations, req[r].fromUserId,
                                                    req[r].toUserId, req[r].itemId)
     IN \E c \in (IF conversationExists = {} THEN {0} ELSE conversationExists) :
          req' = [req EXCEPT ![r].pc = "selected", ![r].found = c]
  /\ UNCHANGED <<store, messages, conversations, now>>

\* createMessage, between the second and the third round trip: the select has
\* returned, and the call builds the statement it sends next; its
\* lastMessageAt: new Date() is read from the server's clock here
DbConversationValues(r) ==
  /\ store = "db"
  /\ req[r].pc = "selected"
  /\ \E t \in ClockReadings :
       /\ req' = [req EXCEPT ![r].pc = "issued", ![r].at = t]
       /\ now' = t
  /\ UNCHANGED <<store, messages, conversations>>

\* createMessage, third round trip: the statement reaches the database (db is
\* drizzle over neon-http: each statement is a request of its own, and the
\* statements of concurrent calls arrive in any order).  It inserts the
\* conversation if the select found none, with created_at defaultNow(), and
\* otherwise updates the lastMessageAt of the one found.
DbWriteConversation(r) ==
  /\ store = "db"
  /\ req[r].pc = "issued"
  /\ IF req[r].found = 0
     THEN \E t \in ClockReadings :
            /\ conversations' =
                 Append(conversations, [id |-> Len(conversations) + 1,
                                        participant1Id |-> req[r].fromUserId,
                                        participant2Id |-> req[r].toUserId,
                                        itemId |-> DbValue(req[r].itemId),
                                        lastMessageAt |-> req[r].at,
                                        createdAt |-> t])
            /\ now' = t
     ELSE /\ conversations' =
               [conversations EXCEPT ![req[r].found].lastMessageAt = req[r].at]
          /\ now' = now
  /\ req' = [req EXCEPT ![r] = IdleReq]
  /\ UNCHANGED <<store, messages>>

\* select ... from messages (no WHERE clause) order by created_at
DbGetConversationMessagesResult(msgs, convs, conversationId) ==
  SortAsc(msgs, [i \in 1..Len(msgs) |-> msgs[i].createdAt])

DbGetConversationMessages(conversationId) ==
  /\ store = "db"
  /\ DbGetConversationMessagesResult(messages, conversations, conversationId)
       \in Seq(Range(messages))
  /\ UNCHANGED storage

DbGetConversationsResult(convs, userId) ==
  LET mine == FilterSeq(convs, {c \in 1..Len(convs) :
                                  \/ convs[c].participant1Id = userId
                                  \/ convs[c].participant2Id = userId})
  IN SortDesc(mine, [c \in 1..Len(mine) |-> mine[c].lastMessageAt])

DbGetConversations(userId) ==
  /\ store = "db"
  /\ DbGetConversationsResult(conversations, userId) \in Seq(Range(conversations))
  /\ UNCHANGED storage

\* update messages set is_read = true where to_user_id = userId and is_read = false
DbMarkMessagesAsReadResult(msgs, convs, conversationId, userId) ==
  [i \in 1..Len(msgs) |->
     IF msgs[i].toUserId = userId /\ msgs[i].isRead = FALSE
     THEN [msgs[i] EXCEPT !.isRead = TRUE]
     ELSE msgs[i]]

DbMarkMessagesAsRead(conversationId, userId) ==
  /\ store = "db"
  /\ messages' = DbMarkMessagesAsReadResult(messages, conversations, conversationId, userId)
  /\ UNCHANGED <<store, conversations, now, req>>

\* conversation identifiers a caller can pass: those that exist and one that does not
ConvIds == 1..(Len(conversations) + 1)

InitMem == Init /\ store = "mem"

Next ==
  \/ \E f \in Users, t \in Users, c \in Contents, i \in ItemInputs :
       MemCreateMessage(InsertMessage(f, t, c, i)) /\ UNCHANGED <<gateway, reading>>
  \/ \E u \in Users : MemGetConversations(u) /\ UNCHANGED <<gateway, reading>>
  \/ \E c \in ConvIds : MemGetConversationMessages(c) /\ UNCHANGED <<gateway, reading>>
  \/ \E c \in ConvIds, u \in Users : MemMarkMessagesAsRead(c, u) /\ UNCHANGED <<gateway, reading>>

InitDb == Init /\ store = "db"

NextDb ==
  \/ \E r \in Requests, f \in Users, t \in Users, c \in Contents, i \in ItemInputs :
       DbInsertMessage(r, f, t, c, i) /\ UNCHANGED <<gateway, reading>>
  \/ \E r \in Requests : DbSelectConversation(r) /\ UNCHANGED <<gateway, reading>>
  \/ \E r \in Requests : DbConversationValues(r) /\ UNCHANGED <<gateway, reading>>
  \/ \E r \in Requests : DbWriteConversation(r) /\ UNCHANGED <<gateway, reading>>
  \/ \E u \in Users : DbGetConversations(u) /\ UNCHANGED <<gateway, reading>>
  \/ \E c \in ConvIds : DbGetConversationMessages(c) /\ UNCHANGED <<gateway, reading>>
  \/ \E c \in ConvIds, u \in Users : DbMarkMessagesAsRead(c, u) /\ UNCHANGED <<gateway, reading>>

\* the server built with MemStorage
Spec == InitMem /\ [][Next]_vars

\* the server built with DatabaseStorage
SpecDb == InitDb /\ [][NextDb]_vars

\* One pair of users writing to each other, with and without a listing, on a
\* server built with either store: the createMessage calls alone.
PairUsers == {"u1", "u2"}

NextPair ==
  \/ \E f \in PairUsers : \E t \in PairUsers \ {f}, c \in Contents, i \in ItemInputs :
       MemCreateMessage(InsertMessage(f, t, c, i)) /\ UNCHANGED <<gateway, reading>>
  \/ \E r \in Requests, f \in PairUsers : \E t \in PairUsers \ {f}, c \in Contents,
                                               i \in ItemInputs :
       DbInsertMessage(r, f, t, c, i) /\ UNCHANGED <<gateway, reading>>
  \/ \E r \in Requests : DbSelectConversation(r) /\ UNCHANGED <<gateway, reading>>
  \/ \E r \in Requests : DbConversationValues(r) /\ UNCHANGED <<gateway, reading>>
  \/ \E r \in Requests : DbWriteConversation(r) /\ UNCHANGED <<gateway, reading>>

SpecPair == Init /\ [][NextPair]_vars

\* A database that holds one message and its conversation when the server
\* starts, and the createMessage calls of the two participants from then on.
InitLast ==
  /\ store = "db"
  /\ messages = <<[id |-> 1, fromUserId |-> "u2", toUserId |-> "u1", content |-> "hi",
                   itemId |-> Null, isRead |-> FALSE, createdAt |-> 0]>>
  /\ conversations = <<[id |-> 1, participant1Id |-> "u2", participant2Id |-> "u1",
                        itemId |-> Null, lastMessageAt |-> 0, createdAt |-> 0]>>
  /\ now = 0
  /\ req = [r \in Requests |-> IdleReq]
  /\ sockets = [k \in Conns |-> NoSocket]
  /\ delivered = [k \in Conns |-> <<>>]
  /\ callers = [r \in Requests |-> "none"]
  /\ res = NoResponse
  /\ gets = [g \in Requests |-> IdleGet]
  /\ returned = [u \in Users |-> {}]

NextLast ==
  \/ \E r \in Requests, f \in PairUsers : \E t \in PairUsers \ {f}, c \in Contents :
       DbInsert(r, f, t, c, Undefined, MaxMessages + 1) /\ UNCHANGED <<gateway, reading>>
  \/ \E r \in Requests : DbSelectConversation(r) /\ UNCHANGED <<gateway, reading>>
  \/ \E r \in Requests : DbConversationValues(r) /\ UNCHANGED <<gateway, reading>>
  \/ \E r \in Requests : DbWriteConversation(r) /\ UNCHANGED <<gateway, reading>>

SpecLast == InitLast /\ [][NextLast]_vars

\* ---------------------------------------------------------------- MongoStorage
\* createMessage of mongodb-storage.ts.  A document field that is not set is
\* Undefined.  Request r goes through save() and findOneAndUpdate(), each
\* awaited.

\* message.itemId ? new Types.ObjectId(message.itemId) : undefined
MongoItemId(itemId) == IF itemId \in {Undefined, Null, ""} THEN Undefined ELSE itemId

\* new MessageModel(messageData).save(): isRead defaults to false and
\* timestamps sets createdAt
MongoSave(r, message) ==
  /\ store = "mongo"
  /\ req[r].pc = "idle"
  /\ Len(messages) < MaxMessages
  /\ \E t \in ClockReadings :
       /\ messages' = Append(messages, [id |-> Len(messages) + 1,
                                        fromUserId |-> message.fromUserId,
                                        toUserId |-> message.toUserId,
                                        content |-> message.content,
                                        itemId |-> MongoItemId(message.itemId),
                                        isRead |-> FALSE,
                                        createdAt |-> t])
       /\ now' = t
  /\ req' = [req EXCEPT ![r] = [pc |-> "saved", fromUserId |-> message.fromUserId,
                                toUserId |-> message.toUserId,
                                itemId |-> message.itemId, found |-> 0,
                                newMessage |-> Len(messages) + 1, at |-> 0]]
  /\ UNCHANGED <<store, conversations>>

\* const conversationData = {..., lastMessageAt: new Date()}, once save() has
\* resolved
MongoConversationData(r) ==
  /\ store = "mongo"
  /\ req[r].pc = "saved"
  /\ \E t \in ClockReadings :
       /\ req' = [req EXCEPT ![r].pc = "issued", ![r].at = t]
       /\ now' = t
  /\ UNCHANGED <<store, messages, conversations>>

\* the filter of findOneAndUpdate: the two orders of the pair, each with the
\* item; a field the filter gives as undefined matches a field that is not set
MongoFilter(convs, participant1Id, participant2Id, itemId) ==
  {c \in 1..Len(convs) :
     \/ /\ convs[c].participant1Id = participant1Id
        /\ convs[c].participant2Id = participant2Id
        /\ convs[c].itemId = itemId
     \/ /\ convs[c].participant1Id = participant2Id
        /\ convs[c].participant2Id = participant1Id
        /\ convs[c].itemId = itemId}

\* the document an upsert inserts: no field is taken from a filter whose top
\* level is an $or of two clauses, so it holds what $set sets and what the
\* schema defaults and timestamps add; the call runs no validators
MongoUpserted(id, lastMessageAt) ==
  [id |-> id,
   participant1Id |-> Undefined,
   participant2Id |-> Undefined,
   itemId |-> Undefined,
   lastMessageAt |-> lastMessageAt,
   createdAt |-> lastMessageAt]

\* ConversationModel.findOneAndUpdate(filter, {$set: {lastMessageAt}},
\* {upsert: true, new: true}), one atomic operation of the database
MongoFindOneAndUpdate(r) ==
  /\ store = "mongo"
  /\ req[r].pc = "issued"
  /\ LET hits == MongoFilter(conversations, req[r].fromUserId, req[r].toUserId,
                             MongoItemId(req[r].itemId))
     IN conversations' =
          IF hits # {}
          THEN [conversations EXCEPT
                  ![CHOOSE c \in hits : \A d \in hits : c <= d].lastMessageAt = req[r].at]
          ELSE Append(conversations, MongoUpserted(Len(conversations) + 1, req[r].at))
  /\ req' = [req EXCEPT ![r] = IdleReq]
  /\ UNCHANGED <<store, messages, now>>

InitMongo ==
  /\ store = "mongo"
  /\ messages = <<>>
  /\ conversations = <<>>
  /\ now = 0
  /\ req = [r \in Requests |-> IdleReq]
  /\ sockets = [k \in Conns |-> NoSocket]
  /\ delivered = [k \in Conns |-> <<>>]
  /\ callers = [r \in Requests |-> "none"]
  /\ res = NoResponse
  /\ gets = [g \in Requests |-> IdleGet]
  /\ returned = [u \in Users |-> {}]

NextMongo ==
  \/ \E r \in Requests, f \in Users, t \in Users, c \in Contents, i \in ItemInputs :
       MongoSave(r, InsertMessage(f, t, c, i)) /\ UNCHANGED <<gateway, reading>>
  \/ \E r \in Requests : MongoConversationData(r) /\ UNCHANGED <<gateway, reading>>
  \/ \E r \in Requests : MongoFindOneAndUpdate(r) /\ UNCHANGED <<gateway, reading>>

SpecMongo == InitMongo /\ [][NextMongo]_vars

\* ---------------------------------------------------------------- routes
\* The users of the route and gateway runs, and what their clients can send.
GwUsers == {"u1", "u2"}

\* the user whose session the requests that create messages are made in
SessionUsers == {"u2"}

\* message texts a client can send: a text, the empty string, blanks only, none
BodyContents == {"hi", "", " ", Undefined}

\* req.body of POST /api/messages: any JSON object; the keys the handler or
\* the store look at, each present or not
Bodies ==
  [fromUserId : {Undefined, "u1"},
   toUserId : GwUsers,
   content : BodyContents,
   itemId : {Undefined},
   isRead : {Undefined, "true"}]

\* the messageData of a socket 'sendMessage' event: any object as well
Payloads ==
  [fromUserId : SessionUsers,
   toUserId : GwUsers,
   content : {"hi"},
   itemId : {Undefined},
   isRead : {Undefined, "true"}]

\* what the ChatInterface client sends: the recipient and a text
PlainBodies ==
  {b \in Bodies : b.fromUserId = Undefined /\ b.content = "hi" /\ b.isRead = Undefined}

PlainPayloads == {m \in Payloads : m.isRead = Undefined}

\* insertMessageSchema = createInsertSchema(messages).omit({id, createdAt, isRead}):
\* fromUserId, toUserId and content are required strings of any length, itemId is
\* optional; parse throws a ZodError when a required key is missing
ZodAccepts(data) ==
  /\ data.fromUserId # Undefined
  /\ data.toUserId # Undefined
  /\ data.content # Undefined

\* const messageData = insertMessageSchema.parse({ ...req.body, fromUserId: userId }):
\* the session's user id is written after the spread, and parse strips the keys
\* that are not in the schema
MessageDataBodyFirst(userId, body) ==
  InsertMessage(IF body.fromUserId # Undefined THEN body.fromUserId ELSE userId,
                body.toUserId, body.content, body.itemId)

MessageData(userId, body) ==
  InsertMessage(userId, body.toUserId, body.content, body.itemId)

\* req.io: no middleware assigns it (the server is stored with app.set('io', io))
ReqIo == Undefined

\* io.to(`user_${room}`).emit('newMessage', message): the event is written once
\* to every socket that is in the room
EmitToRoomFirstOnly(dlv, socks, room, message) ==
  LET inRoom == {k \in Conns : room \in socks[k].rooms}
  IN [k \in Conns |-> IF k \in inRoom /\ \A j \in inRoom : k <= j
                      THEN Append(dlv[k], message)
                      ELSE dlv[k]]

EmitToRoomAll(dlv, socks, room, message) ==
  [k \in Conns |-> IF socks[k].state = "connected"
                   THEN Append(dlv[k], message)
                   ELSE dlv[k]]

EmitToRoom(dlv, socks, room, message) ==
  [k \in Conns |-> IF room \in socks[k].rooms
                   THEN Append(dlv[k], message)
                   ELSE dlv[k]]

\* app.post('/api/messages', requireAuth, ...) for the session of userId
Post(userId, body, room) ==
  /\ store = "mem"
  /\ IF ~ZodAccepts(MessageData(userId, body))
     THEN /\ res' = [caller |-> "http", status |-> 400]
          /\ UNCHANGED <<storage, sockets, delivered, callers>>
     ELSE /\ MemCreate(MessageData(userId, body), room)
          /\ delivered' = IF ReqIo = Undefined
                          THEN delivered
                          ELSE EmitToRoom(delivered, sockets, body.toUserId,
                                          messages'[Len(messages')])
          /\ res' = [caller |-> "http", status |-> 201]
          /\ UNCHANGED <<sockets, callers>>

PostMessage(userId, body) == Post(userId, body, MaxMessages)

\* app.get('/api/conversations/:id/messages', requireAuth, ...): the messages
\* are read, then marked as read for the session's user, then sent
GetMessagesBody(id) == MemGetConversationMessagesResult(messages, conversations, id)

GetMessages(userId, id) ==
  /\ store = "mem"
  /\ GetMessagesBody(id) \in Seq(Range(messages))
  /\ messages' = MemMarkMessagesAsReadResult(messages, conversations, id, userId)
  /\ res' = [caller |-> "http", status |-> 200]
  /\ UNCHANGED <<store, conversations, now, req, sockets, delivered, callers>>

\* io.on('connection', (socket) => ...)
SocketConnection(k) ==
  /\ sockets[k].state = "none"
  /\ sockets' = [sockets EXCEPT ![k] = [state |-> "connected", rooms |-> {}]]
  /\ UNCHANGED <<storage, delivered, callers, res>>

\* socket.on('join', (userId) => socket.join(`user_${userId}`))
SocketJoin(k, userId) ==
  /\ sockets[k].state = "connected"
  /\ sockets' = [sockets EXCEPT ![k].rooms = @ \cup {userId}]
  /\ UNCHANGED <<storage, delivered, callers, res>>

\* socket.on('sendMessage', async (messageData) => ...): nothing is sent back to
\* the socket the event came from
SocketSendMessageEmitOnly(k, messageData) ==
  /\ store = "mem"
  /\ sockets[k].state = "connected"
  /\ Len(messages) < MaxMessages
  /\ delivered' = EmitToRoom(delivered, sockets, messageData.toUserId,
                             MemNewMessage(messageData, Len(messages) + 1, now))
  /\ res' = [caller |-> "socket", status |-> 0]
  /\ UNCHANGED <<storage, sockets, callers>>

SocketSend(k, messageData, room) ==
  /\ store = "mem"
  /\ sockets[k].state = "connected"
  /\ MemCreate(messageData, room)
  /\ delivered' = EmitToRoom(delivered, sockets, messageData.toUserId,
                             messages'[Len(messages')])
  /\ res' = [caller |-> "socket", status |-> 0]
  /\ UNCHANGED <<sockets, callers>>

SocketSendMessage(k, messageData) == SocketSend(k, messageData, MaxMessages)

\* socket.on('disconnect', ...): Socket.IO has taken the socket out of its rooms
SocketDisconnectKeepsRooms(k) ==
  /\ sockets[k].state = "connected"
  /\ sockets' = [sockets EXCEPT ![k].state = "disconnected"]
  /\ UNCHANGED <<storage, delivered, callers, res>>

SocketDisconnect(k) ==
  /\ sockets[k].state = "connected"
  /\ sockets' = [sockets EXCEPT ![k] = [state |-> "disconnected", rooms |-> {}]]
  /\ UNCHANGED <<storage, delivered, callers, res>>

\* the two ways to create a message and the route that reads them, with
\* every body and payload; no connection joins a room
NextRoutes ==
  \/ \E u \in SessionUsers, b \in Bodies : PostMessage(u, b) /\ UNCHANGED reading
  \/ \E u \in Users, c \in ConvIds : GetMessages(u, c) /\ UNCHANGED reading
  \/ \E k \in Conns : SocketConnection(k) /\ UNCHANGED reading
  \/ \E k \in Conns, m \in Payloads : SocketSendMessage(k, m) /\ UNCHANGED reading

SpecRoutes == InitMem /\ [][NextRoutes]_vars

\* the gateway, and the route that creates messages
NextGateway ==
  \/ \E u \in SessionUsers, b \in PlainBodies : PostMessage(u, b) /\ UNCHANGED reading
  \/ \E k \in Conns : SocketConnection(k) /\ UNCHANGED reading
  \/ \E k \in Conns, u \in GwUsers : SocketJoin(k, u) /\ UNCHANGED reading
  \/ \E k \in Conns, m \in PlainPayloads : SocketSendMessage(k, m) /\ UNCHANGED reading
  \/ \E k \in Conns : SocketDisconnect(k) /\ UNCHANGED reading

\* the server of routes.ts, built with MemStorage
SpecGateway == InitMem /\ [][NextGateway]_vars

\* ---------------------------------------------------------------- chat client
\* chat-interface.tsx against the server of routes.ts.  Connection k is the
\* socket of the chat page of the user it has joined as; the user's
\* conversation list is what GET /api/conversations returns.

\* the effect of lines 31-51: io(), then emit('join', user.id)
ChatConnect(k, userId) ==
  /\ sockets[k].state = "none"
  /\ sockets' = [sockets EXCEPT ![k] = [state |-> "connected", rooms |-> {userId}]]
  /\ UNCHANGED <<storage, delivered, callers, res>>

\* the messageData handleSendMessage passes to the mutation for conversation
\* conv: the other participant, the trimmed text, itemId || undefined
ChatMessageData(userId, conv, content) ==
  [fromUserId |-> Undefined,
   toUserId |-> IF conv.participant1Id = userId
                THEN conv.participant2Id
                ELSE conv.participant1Id,
   content |-> content,
   itemId |-> IF conv.itemId = Null THEN Undefined ELSE conv.itemId,
   isRead |-> Undefined]

\* handleSendMessage with activeConversation = id and a text that is not
\* blank, and the POST /api/messages of the mutation
ChatSend(userId, id, content) ==
  /\ id \in 1..Len(conversations)
  /\ conversations[id] \in Range(MemGetConversationsResult(conversations, userId))
  /\ Post(userId, ChatMessageData(userId, conversations[id], content), MaxMessages + 1)

\* what onSuccess is handed: apiRequest resolves either to the parsed body (the
\* message the POST created) or to the fetch Response, which Socket.IO
\* serialises as an object without fields
ChatResults ==
  {messages[Len(messages)],
   [fromUserId |-> Undefined, toUserId |-> Undefined, content |-> Undefined,
    itemId |-> Undefined, isRead |-> Undefined]}

\* onSuccess of the mutation on the page whose socket is k:
\* socket.emit('sendMessage', newMessage), handled by the server
ChatOnSuccess(k) ==
  /\ res = [caller |-> "http", status |-> 201]
  /\ messages[Len(messages)].fromUserId \in sockets[k].rooms
  /\ \E newMessage \in ChatResults : SocketSend(k, newMessage, MaxMessages + 1)

\* a conversation between u2 and u1 exists, begun by one message
InitChat ==
  /\ store = "mem"
  /\ messages = <<[id |-> 1, fromUserId |-> "u2", toUserId |-> "u1",
                   content |-> "hi", itemId |-> Null, isRead |-> FALSE,
                   createdAt |-> 0]>>
  /\ conversations = <<[id |-> 1, participant1Id |-> "u2", participant2Id |-> "u1",
                        itemId |-> Null, lastMessageAt |-> 0, createdAt |-> 0]>>
  /\ now = 0
  /\ req = [r \in Requests |-> IdleReq]
  /\ sockets = [k \in Conns |-> NoSocket]
  /\ delivered = [k \in Conns |-> <<>>]
  /\ callers = [r \in Requests |-> "none"]
  /\ res = NoResponse
  /\ gets = [g \in Requests |-> IdleGet]
  /\ returned = [u \in Users |-> {}]

NextChat ==
  \/ \E k \in Conns, u \in GwUsers : ChatConnect(k, u) /\ UNCHANGED reading
  \/ \E u \in GwUsers, c \in ConvIds, t \in Contents : ChatSend(u, c, t) /\ UNCHANGED reading
  \/ \E k \in Conns : ChatOnSuccess(k) /\ UNCHANGED reading
  \/ \E k \in Conns : SocketDisconnect(k) /\ UNCHANGED reading

SpecChat == InitChat /\ [][NextChat]_vars

\* ---------------------------------------------------------------- routes, relational store
\* The same handlers on a server built with DatabaseStorage.  Each of
\* createMessage's three round trips is awaited and can reject (the datastore
\* is unavailable, the connection is lost); the rejection leaves the call and
\* reaches the handler's catch.

\* what the handler's catch sends to its caller: the route answers 500, the
\* sendMessage handler writes to the log only
Caught(caller) ==
  IF caller = "http"
  THEN [caller |-> "http", status |-> 500]
  ELSE [caller |-> "socket", status |-> 0]

\* app.post('/api/messages', ...) up to createMessage's first round trip
DbPostMessage(r, userId, body) ==
  /\ store = "db"
  /\ req[r].pc = "idle"
  /\ IF ~ZodAccepts(MessageData(userId, body))
     THEN /\ res' = [caller |-> "http", status |-> 400]
          /\ UNCHANGED <<storage, sockets, delivered, callers>>
     ELSE \/ /\ DbInsertMessage(r, userId, body.toUserId, body.content, body.itemId)
             /\ callers' = [callers EXCEPT ![r] = "http"]
             /\ UNCHANGED <<sockets, delivered, res>>
          \/ /\ res' = Caught("http")
             /\ UNCHANGED <<storage, sockets, delivered, callers>>

\* socket.on('sendMessage', ...) up to createMessage's first round trip
DbSocketSendMessage(r, k, messageData) ==
  /\ store = "db"
  /\ req[r].pc = "idle"
  /\ sockets[k].state = "connected"
  /\ \/ /\ DbInsertMessage(r, messageData.fromUserId, messageData.toUserId,
                           messageData.content, messageData.itemId)
        /\ callers' = [callers EXCEPT ![r] = "socket"]
        /\ UNCHANGED <<sockets, delivered, res>>
     \/ /\ res' = Caught("socket")
        /\ UNCHANGED <<storage, sockets, delivered, callers>>

\* the handler waits for the select
DbAwaitSelect(r) ==
  /\ callers[r] # "none"
  /\ DbSelectConversation(r)
  /\ UNCHANGED gateway

\* the select has returned to the call the handler waits for
DbAwaitWrite(r) ==
  /\ callers[r] # "none"
  /\ DbConversationValues(r)
  /\ UNCHANGED gateway

\* createMessage's last round trip, its return, and the rest of the handler: the
\* emit (through req.io in the route, through io in the socket handler) and,
\* in the route, the 201
DbReturn(r) ==
  /\ callers[r] # "none"
  /\ DbWriteConversation(r)
  /\ delivered' = IF callers[r] = "http" /\ ReqIo = Undefined
                  THEN delivered
                  ELSE EmitToRoom(delivered, sockets, req[r].toUserId,
                                  messages[req[r].newMessage])
  /\ res' = IF callers[r] = "http"
            THEN [caller |-> "http", status |-> 201]
            ELSE [caller |-> "socket", status |-> 0]
  /\ callers' = [callers EXCEPT ![r] = "none"]
  /\ UNCHANGED sockets

\* the select, or the conversation insert or update, rejects
DbThrows(r) ==
  /\ store = "db"
  /\ callers[r] # "none"
  /\ req[r].pc \in {"inserted", "issued"}
  /\ req' = [req EXCEPT ![r] = IdleReq]
  /\ res' = Caught(callers[r])
  /\ callers' = [callers EXCEPT ![r] = "none"]
  /\ UNCHANGED <<store, messages, conversations, now, sockets, delivered>>

NextFail ==
  \/ \E r \in Requests, u \in SessionUsers, b \in PlainBodies : DbPostMessage(r, u, b) /\ UNCHANGED reading
  \/ \E r \in Requests, k \in Conns, m \in PlainPayloads : DbSocketSendMessage(r, k, m) /\ UNCHANGED reading
  \/ \E r \in Requests : DbAwaitSelect(r) /\ UNCHANGED reading
  \/ \E r \in Requests : DbAwaitWrite(r) /\ UNCHANGED reading
  \/ \E r \in Requests : DbReturn(r) /\ UNCHANGED reading
  \/ \E r \in Requests : DbThrows(r) /\ UNCHANGED reading
  \/ \E k \in Conns : SocketConnection(k) /\ UNCHANGED reading
  \/ \E k \in Conns, u \in GwUsers : SocketJoin(k, u) /\ UNCHANGED reading

\* the server of routes.ts, built with DatabaseStorage
SpecFail == InitDb /\ [][NextFail]_vars

\* app.get('/api/conversations/:id/messages', ...) in the session of userId, up
\* to its first await: getConversationMessages has run in the database
DbGetList(g, userId, id) ==
  /\ store = "db"
  /\ gets[g].pc = "idle"
  /\ gets' = [gets EXCEPT ![g] =
                [pc |-> "listed", userId |-> userId, id |-> id,
                 messages |-> DbGetConversationMessagesResult(messages, conversations, id)]]
  /\ UNCHANGED <<storage, gateway, returned>>

\* the ids of the messages of a response body
IdsOf(list) == {list[i].id : i \in 1..Len(list)}

\* the rest of the handler: markMessagesAsRead runs in the database, then
\* res.json(messages) sends the list read before it
DbGetMark(g) ==
  /\ store = "db"
  /\ gets[g].pc = "listed"
  /\ messages' = DbMarkMessagesAsReadResult(messages, conversations, gets[g].id,
                                            gets[g].userId)
  /\ returned' = [returned EXCEPT ![gets[g].userId] = @ \cup IdsOf(gets[g].messages)]
  /\ res' = [caller |-> "http", status |-> 200]
  /\ gets' = [gets EXCEPT ![g] = IdleGet]
  /\ UNCHANGED <<store, conversations, now, req, sockets, delivered, callers>>

\* two users who write to each other and open the conversation they have, each
\* step of a request being one round trip to the database
NextRead ==
  \/ \E r \in Requests, f \in PairUsers : \E t \in PairUsers \ {f}, c \in Contents :
       DbInsertMessage(r, f, t, c, Undefined) /\ UNCHANGED <<gateway, reading>>
  \/ \E r \in Requests : DbSelectConversation(r) /\ UNCHANGED <<gateway, reading>>
  \/ \E r \in Requests : DbConversationValues(r) /\ UNCHANGED <<gateway, reading>>
  \/ \E r \in Requests : DbWriteConversation(r) /\ UNCHANGED <<gateway, reading>>
  \/ \E g \in Requests, u \in PairUsers, c \in 1..Len(conversations) : DbGetList(g, u, c)
  \/ \E g \in Requests : DbGetMark(g)

SpecRead == InitDb /\ [][NextRead]_vars

\* ---------------------------------------------------------------- claims
\* what the specification means by a conversation's identity and membership
SamePair(c, d) ==
  \/ (c.participant1Id = d.participant1Id /\ c.participant2Id = d.participant2Id)
  \/ (c.participant1Id = d.participant2Id /\ c.participant2Id = d.participant1Id)

Between(m, c) ==
  \/ (m.fromUserId = c.participant1Id /\ m.toUserId = c.participant2Id)
  \/ (m.fromUserId = c.participant2Id /\ m.toUserId = c.participant1Id)

\* the item scope a caller's itemId stands for: a listing, or none
ScopeOf(itemId) == IF itemId \in Items THEN itemId ELSE Null

BelongsTo(m, c) == Between(m, c) /\ m.itemId = c.itemId

ConvIndices == 1..Len(conversations)
MsgIndices == 1..Len(messages)

OnePerPairAndScope ==
  \A c, d \in ConvIndices :
    (SamePair(conversations[c], conversations[d])
       /\ conversations[c].itemId = conversations[d].itemId) => c = d

\* C1: in the in-memory store, after any sequence of createMessage calls, at most
\* one conversation exists for an unordered participant pair and item scope.
C1_ConversationUnique == store = "mem" => OnePerPairAndScope

\* C1 witness: two users have written to each other under one scope, and the
\* pair has its conversation.
C1_Witness ==
  \E i, j \in MsgIndices :
    /\ messages[i].fromUserId # messages[i].toUserId
    /\ messages[j].fromUserId = messages[i].toUserId
    /\ messages[j].toUserId = messages[i].fromUserId
    /\ messages[j].itemId = messages[i].itemId
    /\ \E c \in ConvIndices : BelongsTo(messages[i], conversations[c])

\* every stored message meets sendMessage's precondition: sender # recipient
ValidSends == \A i \in MsgIndices : messages[i].fromUserId # messages[i].toUserId

\* C2: in the relational store, once every createMessage call in flight has
\* completed, at most one conversation row exists for a pair and item scope,
\* also when the calls' round trips interleaved.
C2_NoDuplicateAfterRace ==
  (store = "db" /\ ValidSends /\ \A r \in Requests : req[r].pc = "idle")
    => OnePerPairAndScope

C3_StepOK ==
  (Len(messages') # Len(messages) \/ conversations' # conversations) =>
    /\ Len(messages') = Len(messages) + 1
    /\ \A i \in MsgIndices : messages'[i] = messages[i]
    /\ Len(conversations') \in {Len(conversations), Len(conversations) + 1}
    /\ LET m == messages'[Len(messages')]
           mine == {c \in ConvIndices : BelongsTo(m, conversations[c])}
       IN IF mine = {}
          THEN /\ \A c \in ConvIndices : conversations'[c] = conversations[c]
               /\ Len(conversations') = Len(conversations) + 1
                    => BelongsTo(m, conversations'[Len(conversations')])
          ELSE /\ Len(conversations') = Len(conversations)
               /\ \A c \in ConvIndices :
                    /\ c \notin mine => conversations'[c] = conversations[c]
                    /\ conversations'[c] =
                         [conversations[c] EXCEPT
                            !.lastMessageAt = conversations'[c].lastMessageAt]

\* C3: a createMessage call of the in-memory store adds exactly one message and
\* at most one conversation; when a conversation of the pair and scope exists,
\* it adds none and changes nothing but that conversation's lastMessageAt.
C3_SendAddsOneMessage == [][C3_StepOK]_vars

\* C3 witness: a second message of a pair found the pair's conversation and
\* moved its lastMessageAt.
C3_Witness ==
  /\ Len(messages) = 2
  /\ Len(conversations) = 1
  /\ messages[1].fromUserId = messages[2].toUserId
  /\ messages[1].fromUserId # messages[1].toUserId
  /\ conversations[1].lastMessageAt > conversations[1].createdAt

\* C4: the conversation of every message sent is in the conversation list of
\* its sender and in that of its recipient.
C4_Symmetry ==
  \A i \in MsgIndices :
    \E c \in ConvIndices :
      /\ BelongsTo(messages[i], conversations[c])
      /\ conversations[c] \in
           Range(MemGetConversationsResult(conversations, messages[i].fromUserId))
      /\ conversations[c] \in
           Range(MemGetConversationsResult(conversations, messages[i].toUserId))

\* C4 witness: the user listed as second participant has sent a message in the
\* conversation the other user opened, and finds it in their list.
C4_Witness ==
  \E i \in MsgIndices, c \in ConvIndices :
    /\ BelongsTo(messages[i], conversations[c])
    /\ messages[i].fromUserId = conversations[c].participant2Id
    /\ messages[i].fromUserId # messages[i].toUserId
    /\ conversations[c] \in
         Range(MemGetConversationsResult(conversations, messages[i].fromUserId))

\* the conversations a step created or changed
Touched == {c \in 1..Len(conversations') :
              c > Len(conversations) \/ conversations'[c] # conversations[c]}

C5_StepOK ==
  /\ \A f \in Users, t \in Users, c \in Contents, i \in ItemInputs :
       MemCreateMessage(InsertMessage(f, t, c, i)) =>
         \A k \in Touched : conversations'[k].itemId = ScopeOf(i)
  /\ \A r \in Requests :
       DbWriteConversation(r) =>
         \A k \in Touched : conversations'[k].itemId = ScopeOf(req[r].itemId)

\* C5: the item scope is an exact-match key. A createMessage call without itemId
\* creates or updates only a conversation without itemId, one with itemId X only
\* a conversation with itemId X, in the in-memory and in the relational store.
C5_ItemScopeExact == [][C5_StepOK]_vars

\* C5 witness: one pair has a conversation without item and one about a listing.
C5_Witness ==
  \E c, d \in ConvIndices :
    /\ SamePair(conversations[c], conversations[d])
    /\ conversations[c].participant1Id # conversations[c].participant2Id
    /\ conversations[c].itemId = Null
    /\ conversations[d].itemId \in Items

\* C6: getConversationMessages returns exactly the messages between the
\* conversation's participants that carry the conversation's item scope.
C6_ListMessagesScoped ==
  (store = "mem" /\ ValidSends) =>
    \A c \in ConvIndices :
      Range(MemGetConversationMessagesResult(messages, conversations, c))
        = {m \in Range(messages) : BelongsTo(m, conversations[c])}

C7_StepOK ==
  ValidSends =>
    \A c \in ConvIndices, u \in Users :
      MemMarkMessagesAsRead(c, u) =>
        \A i \in MsgIndices :
          messages'[i] =
            IF BelongsTo(messages[i], conversations[c]) /\ messages[i].toUserId = u
            THEN [messages[i] EXCEPT !.isRead = TRUE]
            ELSE messages[i]

\* C7: markMessagesAsRead(conversationId, readerId) of the in-memory store sets
\* isRead on the messages of that conversation addressed to the reader and
\* leaves every other message as it was, those of other conversations included.
C7_MarkReadExact == [][C7_StepOK]_vars

C8_StepOK ==
  (ValidSends /\ \A r \in Requests : req[r].pc = "idle") =>
    \A c \in ConvIndices, u \in Users :
      DbMarkMessagesAsRead(c, u) =>
        \A i \in MsgIndices :
          ~Between(messages[i], conversations[c]) => messages'[i] = messages[i]

\* C8: markMessagesAsRead of the relational store changes no message whose
\* sender and recipient are not the two participants of the conversation.
C8_MarkReadConversationScoped == [][C8_StepOK]_vars

\* C9: markMessagesAsRead is idempotent: in every store state, for every
\* conversation and reader, two calls in succession leave the read flags that
\* one call leaves.
C9_MarkReadIdempotent ==
  store = "mem" =>
    \A c \in ConvIds, u \in Users :
      LET once == MemMarkMessagesAsReadResult(messages, conversations, c, u)
      IN MemMarkMessagesAsReadResult(once, conversations, c, u) = once

\* C9 witness: a call has marked a message of a conversation, and a call for
\* the other participant of that conversation would mark another one.
C9_Witness ==
  \E i, j \in MsgIndices, c \in ConvIndices :
    /\ messages[i].isRead
    /\ ~messages[j].isRead
    /\ messages[i].fromUserId # messages[i].toUserId
    /\ messages[j].fromUserId = messages[i].toUserId
    /\ messages[j].toUserId = messages[i].fromUserId
    /\ Between(messages[i], conversations[c])
    /\ MemMarkMessagesAsReadResult(messages, conversations, c, messages[j].toUserId)
         # messages

C10_StepOK ==
  \A i \in MsgIndices :
    messages[i].isRead => (i \in 1..Len(messages') /\ messages'[i].isRead)

\* C10: the read flag is one-way: a message that is read stays read in every
\* step of every execution.
C10_ReadOneWay == [][C10_StepOK]_vars

\* C10 witness: a message was read, and then its sender wrote to the same
\* recipient again.
C10_Witness ==
  \E i, j \in MsgIndices :
    /\ i < j
    /\ messages[i].isRead
    /\ ~messages[j].isRead
    /\ messages[i].fromUserId # messages[i].toUserId
    /\ messages[j].fromUserId = messages[i].fromUserId
    /\ messages[j].toUserId = messages[i].toUserId

\* the message a step created
Created == messages'[Len(messages')]

Creates == Len(messages') = Len(messages) + 1

\* the step is a POST /api/messages that created a message, or a socket
\* sendMessage event (the only handlers that create one write res so)
ByPost == Creates /\ res'.caller = "http"
BySocket == Creates /\ res'.caller = "socket"

C11_StepOK == (ByPost \/ BySocket) => ~Created.isRead

\* C11: the message a POST /api/messages request or a socket sendMessage event
\* creates is unread right after its creation, also when the body or payload
\* carries an isRead of its own.
C11_Unread == [][C11_StepOK]_vars

\* C11 witness: two messages have been created, the later one by a socket
\* sendMessage event, and both are unread.
C11_Witness ==
  /\ Len(messages) = 2
  /\ res.caller = "socket"
  /\ \A i \in MsgIndices : ~messages[i].isRead

\* String.prototype.trim on the texts of BodyContents
Trim(content) == IF content = " " THEN "" ELSE content

C12_StepOK ==
  \A u \in SessionUsers, b \in Bodies :
    (PostMessage(u, b) /\ b.toUserId # u /\ Trim(b.content) = "") =>
      /\ res'.status = 400
      /\ messages' = messages
      /\ conversations' = conversations

\* C12: a POST /api/messages whose content is empty, or empty once trimmed, is
\* answered 400 and creates no message and no conversation.
C12_EmptyContentRejected == [][C12_StepOK]_vars

C13_StepOK ==
  \A u \in SessionUsers, b \in Bodies :
    (PostMessage(u, b) /\ b.toUserId = u /\ b.content = "hi") =>
      /\ res'.status = 400
      /\ messages' = messages
      /\ conversations' = conversations

\* C13: a POST /api/messages whose recipient is the sender is answered 400 and
\* creates no message and no conversation.
C13_SelfMessageRejected == [][C13_StepOK]_vars

C14_StepOK == ByPost => Created.fromUserId \in SessionUsers

\* C14: the message a POST /api/messages request creates has the session's
\* user as fromUserId, whatever fromUserId the body carries.
C14_SenderFromSession == [][C14_StepOK]_vars

\* C14 witness: the route has answered 201 and the message it created is from
\* the session's user.
C14_Witness ==
  /\ res = [caller |-> "http", status |-> 201]
  /\ Len(messages) >= 1
  /\ messages[Len(messages)].fromUserId \in SessionUsers
  /\ messages[Len(messages)].toUserId \notin SessionUsers

C15_StepOK ==
  \A u \in SessionUsers, b \in PlainBodies :
    (PostMessage(u, b) /\ b.toUserId # u /\ res'.status = 201) =>
      \A k \in Conns :
        b.toUserId \in sockets[k].rooms => delivered'[k] = Append(delivered[k], Created)

\* C15: when POST /api/messages answers 201, every connection in the room of
\* the recipient is sent a newMessage event with the created message.
C15_PostEmits == [][C15_StepOK]_vars

C16_StepOK ==
  BySocket =>
    \A j \in Conns :
      /\ Created \notin Range(delivered[j])
      /\ delivered'[j] =
           IF sockets[j].state = "connected" /\ Created.toUserId \in sockets[j].rooms
           THEN Append(delivered[j], Created)
           ELSE delivered[j]

\* C16: a message created by a socket sendMessage event is delivered once to
\* each connection that has joined as its recipient and has not disconnected,
\* and to no other connection.
C16_FanOut == [][C16_StepOK]_vars

\* C16 witness: two connections of one user have each been delivered the same
\* message, once.
C16_Witness ==
  \E j, k \in Conns :
    /\ j # k
    /\ Len(delivered[j]) = 1
    /\ delivered[k] = delivered[j]
    /\ delivered[j][1].fromUserId # delivered[j][1].toUserId
    /\ delivered[j][1].toUserId \in sockets[j].rooms \cap sockets[k].rooms

\* no connection is in the room of userId
NotRegistered(userId) == \A k \in Conns : userId \notin sockets[k].rooms

C17_StepOK ==
  /\ ((ByPost \/ BySocket) /\ Created.fromUserId # Created.toUserId
        /\ NotRegistered(Created.toUserId)) =>
       /\ ByPost => res'.status = 201
       /\ delivered' = delivered
       /\ \E c \in 1..Len(conversations') :
            /\ BelongsTo(Created, conversations'[c])
            /\ Created \in Range(MemGetConversationMessagesResult(
                                   messages', conversations', c))
  /\ ~Creates => delivered' = delivered

\* C17: a message created while no connection of its recipient is registered
\* is created all the same (201), is pushed to nobody, is not pushed when the
\* recipient registers later, and is in the recipient's next listing of the
\* conversation's messages.
C17_MissIsNoError == [][C17_StepOK]_vars

\* C17 witness: a message was sent over a socket while its recipient had no
\* connection; the recipient has registered since and has been pushed nothing;
\* the message is in the conversation's listing.
C17_Witness ==
  /\ Len(messages) = 1
  /\ messages[1].fromUserId # messages[1].toUserId
  /\ \E k \in Conns :
       /\ messages[1].toUserId \in sockets[k].rooms
       /\ delivered[k] = <<>>
  /\ res.caller = "socket"
  /\ messages[1] \in Range(MemGetConversationMessagesResult(messages, conversations, 1))

C18_StepOK ==
  ValidSends =>
    \A r \in Requests :
      (DbThrows(r) /\ callers[r] = "http") =>
        /\ res' = [caller |-> "http", status |-> 500]
        /\ delivered' = delivered
        /\ \A i \in 1..Len(messages') : messages'[i].id # req[r].newMessage

\* C18: when a round trip of createMessage fails under POST /api/messages, the
\* route answers 500, no newMessage event is emitted, and the message of the
\* failed request is not in the store.
C18_FailedSendLeavesNoTrace == [][C18_StepOK]_vars

\* a handler's store call failed in this step: a later round trip of a call in
\* flight, or the first round trip of a call just made
StoreCallFails ==
  \/ \E r \in Requests : DbThrows(r)
  \/ /\ \E r \in Requests, k \in Conns, m \in PlainPayloads : DbSocketSendMessage(r, k, m)
     /\ messages' = messages
  \/ /\ \E r \in Requests, u \in SessionUsers, b \in PlainBodies : DbPostMessage(r, u, b)
     /\ messages' = messages

C19_StepOK == (ValidSends /\ StoreCallFails) => res'.status >= 500

\* C19: whenever a store call made by the message route or by the socket
\* sendMessage handler fails, the handler sends a failure response to the
\* caller that submitted the request.
C19_NoSilentFailure == [][C19_StepOK]_vars

\* a connection is registered from its first join to its disconnect
Registered(k) == sockets[k].state = "connected" /\ sockets[k].rooms # {}

C20_StepOK ==
  \A k \in Conns :
    /\ sockets[k].state # "connected" => sockets[k].rooms = {}
    /\ (~Registered(k) /\ Registered(k)') => \E u \in GwUsers : SocketJoin(k, u)
    /\ (Registered(k) /\ ~Registered(k)') => SocketDisconnect(k)
    /\ sockets[k].state = "disconnected" => sockets'[k] = sockets[k]
    /\ delivered'[k] # delivered[k] => (Registered(k) /\ Registered(k)')

\* C20: a connection is unregistered until its join, registered from then to
\* its disconnect and unregistered for good afterwards; a newMessage event is
\* delivered to it only while it is registered, none after its disconnect.
C20_ConnectionStates == [][C20_StepOK]_vars

\* C20 witness: a connection was delivered a message while registered and has
\* disconnected; a later message to the same user was not delivered to it.
C20_Witness ==
  \E k \in Conns :
    /\ sockets[k].state = "disconnected"
    /\ Len(delivered[k]) = 1
    /\ Len(messages) = 2
    /\ delivered[k][1] = messages[1]
    /\ messages[2].toUserId = messages[1].toUserId
    /\ messages[1].fromUserId # messages[1].toUserId
    /\ res.caller = "socket"

\* the conversations that have userId in one of the participant slots
ConvsOf(userId) ==
  {c \in ConvIndices : \/ conversations[c].participant1Id = userId
                       \/ conversations[c].participant2Id = userId}

C22_ListMessagesOrdered ==
  store = "mem" =>
    \A c \in ConvIndices :
      LET list == MemGetConversationMessagesResult(messages, conversations, c)
      IN \A i, j \in 1..Len(list) : i < j => list[i].createdAt <= list[j].createdAt

\* C22 witness: the two participants of a conversation have written one after
\* the other, and the listing has the earlier message first.
C22_Witness ==
  \E c \in ConvIndices :
    LET list == MemGetConversationMessagesResult(messages, conversations, c)
    IN /\ Len(list) = 2
       /\ list[1].fromUserId # list[1].toUserId
       /\ list[2].fromUserId = list[1].toUserId
       /\ list[2].toUserId = list[1].fromUserId
       /\ list[1].createdAt < list[2].createdAt

C23_StepOK ==
  (Creates /\ Created.fromUserId # Created.toUserId) =>
    \E c \in 1..Len(conversations') :
      /\ BelongsTo(Created, conversations'[c])
      /\ conversations'[c].lastMessageAt = Created.createdAt

\* C23: after a createMessage call of the in-memory store, the lastMessageAt of
\* the message's conversation equals the createdAt of the message just created.
C23_LastMessageAtIsCreatedAt == [][C23_StepOK]_vars

C30_StepOK ==
  (store = "db" /\ ValidSends) =>
    \A c \in ConvIndices :
      conversations'[c].lastMessageAt >= conversations[c].lastMessageAt

\* C30: in the relational store, however the round trips of concurrent
\* createMessage calls interleave, no step makes a conversation's lastMessageAt
\* smaller.
C30_LastMessageAtMonotonic == [][C30_StepOK]_vars

\* C25: every newMessage event a connection has been sent carries a message
\* that is in the store, together with its conversation, created or updated
\* for it.
C25_PersistBeforeNotify ==
  store = "mem" =>
    \A k \in Conns : \A e \in 1..Len(delivered[k]) :
      \E i \in MsgIndices :
        /\ messages[i].id = delivered[k][e].id
        /\ \E c \in ConvIndices :
             /\ BelongsTo(messages[i], conversations[c])
             /\ conversations[c].lastMessageAt >= messages[i].createdAt

\* C25 witness: a connection in the recipient's room has been sent the event of
\* a message, which is in the store.
C25_Witness ==
  \E k \in Conns :
    /\ Len(delivered[k]) = 1
    /\ delivered[k][1].fromUserId # delivered[k][1].toUserId
    /\ delivered[k][1] \in Range(messages)

C27_StepOK ==
  \A k \in Conns, m \in PlainPayloads :
    (SocketSendMessage(k, m) /\ m.fromUserId # m.toUserId) =>
      Created.fromUserId \in sockets[k].rooms

\* C27: the message a socket sendMessage event creates has as fromUserId a
\* user the submitting connection is registered as.
C27_SocketSenderIsOwner == [][C27_StepOK]_vars

\* userId is one of the two participants of the conversation
Participant(userId, conv) ==
  userId = conv.participant1Id \/ userId = conv.participant2Id

C28_StepOK ==
  ValidSends =>
    \A u \in Users, c \in ConvIndices :
      (GetMessages(u, c) /\ ~Participant(u, conversations[c])) =>
        /\ GetMessagesBody(c) = <<>>
        /\ messages' = messages

\* C28: GET /api/conversations/:id/messages in the session of a user who is
\* not a participant of the conversation returns no message and changes no
\* read flag.
C28_ParticipantsOnly == [][C28_StepOK]_vars

C26_StepOK ==
  \A k \in Conns :
    ChatOnSuccess(k) =>
      /\ messages' = messages
      /\ \A j \in Conns : Len(delivered'[j]) <= Len(delivered[j]) + 1

\* C26: the onSuccess handler of a send in the chat page persists no further
\* message (the POST has persisted the one message of the send) and has each
\* connection sent at most one newMessage event.
C26_OneSendOneMessage == [][C26_StepOK]_vars

C24_StepOK ==
  \A r \in Requests :
    (MongoFindOneAndUpdate(r) /\ Len(conversations') = Len(conversations) + 1) =>
      LET upserted == conversations'[Len(conversations')]
      IN /\ upserted.participant1Id = req[r].fromUserId
         /\ upserted.participant2Id = req[r].toUserId
         /\ upserted.itemId = MongoItemId(req[r].itemId)

\* C24: the conversation MongoStorage.createMessage upserts when none matches
\* has the sender as participant1Id, the recipient as participant2Id and the
\* message's item scope as itemId.
C24_UpsertSetsParticipants == [][C24_StepOK]_vars

\* C29: a message that is read has been in a list the route returned to its
\* recipient.
C29_ReadOnlyIfReturned ==
  store = "db" =>
    \A i \in MsgIndices :
      messages[i].isRead = TRUE => messages[i].id \in returned[messages[i].toUserId]

====
